---- MODULE Spec2Model ----
(***************************************************************************)
(* Model of archive_watch.core.utility.file_path: the seven path helpers   *)
(* (check_dir, check_extension, check_file, check_path_exists,             *)
(* get_extension, prepare_path, provision_path) run as a call stack of     *)
(* frames over a fixed filesystem.  Python strings are sequences of        *)
(* one-character strings; a pathlib.Path is the normalised string it       *)
(* prints as.  No function of the module catches an exception, so a raise  *)
(* unwinds the whole stack.                                                *)
(***************************************************************************)
EXTENDS Naturals, Sequences, FiniteSets

VARIABLES fs, call, stack, ret, outcome, log

vars == <<fs, call, stack, ret, outcome, log>>

(***************************************************************************)
(* Bounds of the model.                                                    *)
(***************************************************************************)
\* how many of the candidate input names are used as arguments
NumNames == 3
\* the interpreter's recursion limit (sys.getrecursionlimit()), scaled down
MaxDepth == 6

(***************************************************************************)
(* Python strings.                                                         *)
(***************************************************************************)
Lowers == <<"a","b","c","d","e","f","g","h","i","j","k","l","m",
            "n","o","p","q","r","s","t","u","v","w","x","y","z">>
Uppers == <<"A","B","C","D","E","F","G","H","I","J","K","L","M",
            "N","O","P","Q","R","S","T","U","V","W","X","Y","Z">>

\* str.lower() on one character
LowerChar(c) ==
    IF \E i \in DOMAIN Uppers : Uppers[i] = c
    THEN Lowers[CHOOSE i \in DOMAIN Uppers : Uppers[i] = c]
    ELSE c

\* str.lower()
Lower(s) == [i \in DOMAIN s |-> LowerChar(s[i])]

\* str.startswith(prefix)
StartsWith(s, prefix) ==
    /\ Len(s) >= Len(prefix)
    /\ SubSeq(s, 1, Len(prefix)) = prefix

\* s[k:] with a 0-based k, as Python slices
SliceFrom(s, k) == SubSeq(s, k + 1, Len(s))

\* str.rfind(c), 0-based, -1 rendered as the value Len(s) + 1 is never
\* needed: the callers test Has first
Has(s, c) == \E i \in DOMAIN s : s[i] = c
RFind(s, c) == (CHOOSE i \in DOMAIN s : s[i] = c /\ \A j \in DOMAIN s : s[j] = c => j <= i) - 1

(***************************************************************************)
(* pathlib on a POSIX host.                                                *)
(***************************************************************************)
Home == <<"/","h","o","m","e","/","u">>
Cwd == <<"/","w">>
Dot == <<".">>

RECURSIVE SplitParts(_, _, _)
\* the components of s between "/" separators, in order (cur is the
\* component being read, acc the ones already finished)
SplitParts(s, cur, acc) ==
    IF s = <<>> THEN Append(acc, cur)
    ELSE IF Head(s) = "/" THEN SplitParts(Tail(s), <<>>, Append(acc, cur))
    ELSE SplitParts(Tail(s), Append(cur, Head(s)), acc)

RECURSIVE JoinParts(_)
JoinParts(parts) ==
    IF parts = <<>> THEN <<>>
    ELSE IF Len(parts) = 1 THEN parts[1]
    ELSE parts[1] \o <<"/">> \o JoinParts(Tail(parts))

\* the components pathlib keeps: empty ones and "." are dropped
KeptParts(s) ==
    SelectSeq(SplitParts(s, <<>>, <<>>), LAMBDA c : c # <<>> /\ c # Dot)

\* str(Path(s)): Path() and Path('') print as '.'
PathOf(s) ==
    LET parts == KeptParts(s)
        abs == s # <<>> /\ Head(s) = "/"
    IN  IF abs THEN <<"/">> \o JoinParts(parts)
        ELSE IF parts = <<>> THEN Dot
        ELSE JoinParts(parts)

\* str(Path.expanduser()): a leading "~" component becomes the home directory
ExpandUser(p) ==
    IF p = <<"~">> \/ StartsWith(p, <<"~","/">>)
    THEN PathOf(Home \o SliceFrom(p, 1))
    ELSE p

\* str(Path.resolve()) on a filesystem without symbolic links: made
\* absolute against the working directory
Resolve(p) ==
    IF p # <<>> /\ Head(p) = "/" THEN p
    ELSE IF p = Dot THEN Cwd
    ELSE Cwd \o <<"/">> \o p

\* Path.name: the last component ('' for '.' and '/')
NameOf(p) ==
    LET parts == KeptParts(p)
    IN  IF parts = <<>> THEN <<>> ELSE parts[Len(parts)]

\* Path.suffix: from the last dot of the name, unless that dot is the
\* first or the last character
Suffix(p) ==
    LET name == NameOf(p)
    IN  IF Has(name, ".") /\ 0 < RFind(name, ".") /\ RFind(name, ".") < Len(name) - 1
        THEN SliceFrom(name, RFind(name, "."))
        ELSE <<>>

(***************************************************************************)
(* Python values.                                                          *)
(***************************************************************************)
StrV(s) == [t |-> "str", s |-> s, b |-> FALSE]
PathV(p) == [t |-> "path", s |-> p, b |-> FALSE]
IntV == [t |-> "int", s |-> <<>>, b |-> FALSE]
BoolV(x) == [t |-> "bool", s |-> <<>>, b |-> x]
NoneV == [t |-> "none", s |-> <<>>, b |-> FALSE]

IsPath(v) == v.t = "path"
IsStr(v) == v.t = "str"
\* truth value of a bool or None
Truthy(v) == v.t = "bool" /\ v.b

(***************************************************************************)
(* The filesystem: the kind of each absolute path.                         *)
(***************************************************************************)
Kinds == {"absent", "file", "dir", "other"}

KindOf(f, p) ==
    LET a == Resolve(p)
    IN  IF a = Cwd THEN "dir"
        ELSE IF a \in DOMAIN f THEN f[a]
        ELSE "absent"

Exists(f, p) == KindOf(f, p) # "absent"
IsFile(f, p) == KindOf(f, p) = "file"
IsDir(f, p) == KindOf(f, p) = "dir"

(***************************************************************************)
(* Inputs.                                                                 *)
(***************************************************************************)
AllNames == << <<"a",".","T","X","T">>,
               <<"~","/","x">>,
               <<>>,
               <<"d","/">>,
               <<"b",".","m","d">>,
               <<"a",".","t","x","t">> >>

Names == {AllNames[i] : i \in {j \in DOMAIN AllNames : j <= NumNames}}

Values == {StrV(n) : n \in Names} \cup {PathV(PathOf(n)) : n \in Names} \cup {IntV}

Targets == {Resolve(PathOf(n)) : n \in Names} \ {Cwd}

ExtLists == {{<<"t","x","t">>}, {<<"m","d">>}}

DefaultFlags ==
    [do_not_expand |-> FALSE, do_not_resolve |-> FALSE, no_convert |-> FALSE,
     no_provision |-> FALSE, no_existing_check |-> FALSE,
     no_strip_dot |-> FALSE, no_prepare |-> FALSE]

NoCall == [fn |-> "none", arg |-> NoneV, fl |-> DefaultFlags, exts |-> {}]
NoOutcome == [kind |-> "none", val |-> NoneV, err |-> "none"]

Frame(fn, pc, arg, fl, exts) ==
    [fn |-> fn, pc |-> pc, arg0 |-> arg, path |-> arg, fl |-> fl, exts |-> exts]

Idle == call = NoCall
Running == stack # <<>>
Done == call # NoCall /\ stack = <<>>

Top == stack[Len(stack)]
At(fn, pc) == Running /\ Top.fn = fn /\ Top.pc = pc

Init ==
    /\ fs \in [Targets -> Kinds]
    /\ call = NoCall
    /\ stack = <<>>
    /\ ret = NoneV
    /\ outcome = NoOutcome
    /\ log = <<>>

(***************************************************************************)
(* Call, return and raise.                                                 *)
(***************************************************************************)
\* `raise e`: nothing catches it, the whole call chain ends
Raise(e) ==
    /\ stack' = <<>>
    /\ outcome' = [kind |-> "raise", val |-> NoneV, err |-> e]
    /\ UNCHANGED <<fs, call, ret, log>>

\* `return v` from the top frame
Return(v) ==
    /\ stack' = SubSeq(stack, 1, Len(stack) - 1)
    /\ ret' = v
    /\ log' = Append(log, [fn |-> Top.fn, arg |-> Top.arg0, val |-> v])
    /\ outcome' = IF Len(stack) = 1
                  THEN [kind |-> "return", val |-> v, err |-> "none"]
                  ELSE outcome
    /\ UNCHANGED <<fs, call>>

\* the top frame, with `path` set to v, calls fn(arg, flags) and continues at pc
Invoke(v, pc, fn, entry, arg, fl) ==
    IF Len(stack) >= MaxDepth
    THEN Raise("RecursionError")
    ELSE /\ stack' = Append([stack EXCEPT ![Len(stack)].pc = pc,
                                          ![Len(stack)].path = v],
                            Frame(fn, entry, arg, fl, Top.exts))
         /\ UNCHANGED <<fs, call, ret, outcome, log>>

\* the top frame moves to pc with `path` set to v
Goto(v, pc) ==
    /\ stack' = [stack EXCEPT ![Len(stack)].pc = pc, ![Len(stack)].path = v]
    /\ UNCHANGED <<fs, call, ret, outcome, log>>

\* a caller outside the module starts fn(arg, flags)
Start(fn, entry, arg, fl, exts) ==
    /\ Idle
    /\ call' = [fn |-> fn, arg |-> arg, fl |-> fl, exts |-> exts]
    /\ stack' = <<Frame(fn, entry, arg, fl, exts)>>
    /\ UNCHANGED <<fs, ret, outcome, log>>

\* the caller has taken the result; the next call may start
Finish ==
    /\ Done
    /\ call' = NoCall
    /\ ret' = NoneV
    /\ outcome' = NoOutcome
    /\ log' = <<>>
    /\ UNCHANGED <<fs, stack>>

(***************************************************************************)
(* check_path_exists                                                       *)
(***************************************************************************)
Call_check_path_exists ==
    \E v \in Values : Start("check_path_exists", "l188", v, DefaultFlags, {})

check_path_exists_l188 ==
    /\ At("check_path_exists", "l188")
    /\ IF ~IsPath(Top.path)
       THEN Raise("TypeError")
       ELSE Return(BoolV(Exists(fs, Top.path.s)))

(***************************************************************************)
(* check_file                                                              *)
(***************************************************************************)
Call_check_file ==
    \E v \in Values : Start("check_file", "l159", v, DefaultFlags, {})

check_file_l159 ==
    /\ At("check_file", "l159")
    /\ IF ~IsPath(Top.path)
       THEN Raise("TypeError")
       ELSE Invoke(Top.path, "l164", "check_path_exists", "l188", Top.path, DefaultFlags)

\* a slip: the existence result returned in place of is_file()
check_file_l164_exists ==
    /\ At("check_file", "l164")
    /\ Return(ret)

check_file_l164 ==
    /\ At("check_file", "l164")
    /\ Return(BoolV(IsFile(fs, Top.path.s)))

(***************************************************************************)
(* check_dir                                                               *)
(***************************************************************************)
Call_check_dir ==
    \E v \in Values : Start("check_dir", "l88", v, DefaultFlags, {})

check_dir_l88 ==
    /\ At("check_dir", "l88")
    /\ Invoke(Top.path, "l89", "check_file", "l159", Top.path, DefaultFlags)

\* the function falls off its end, returning None, when check_file was true
check_dir_l89 ==
    /\ At("check_dir", "l89")
    /\ IF ~Truthy(ret)
       THEN Return(BoolV(IsDir(fs, Top.path.s)))
       ELSE Return(NoneV)

(***************************************************************************)
(* provision_path                                                          *)
(***************************************************************************)
Call_provision_path ==
    \E v \in Values, e, r, c \in BOOLEAN :
        Start("provision_path", "l352", v,
              [DefaultFlags EXCEPT !.do_not_expand = e, !.do_not_resolve = r,
                                   !.no_convert = c], {})

\* a slip: the raise of line 356 left out, so a value of another type
\* runs on into the path methods
provision_path_l352_noraise ==
    /\ At("provision_path", "l352")
    /\ IF ~IsPath(Top.path) /\ ~Top.fl.no_convert /\ IsStr(Top.path)
       THEN Invoke(Top.path, "l354", "prepare_path", "l295", Top.path,
                   [DefaultFlags EXCEPT !.do_not_expand = Top.fl.do_not_expand,
                                        !.do_not_resolve = Top.fl.do_not_resolve])
       ELSE IF ~IsPath(Top.path) /\ ~(Top.fl.do_not_expand /\ Top.fl.do_not_resolve)
            THEN Raise("AttributeError")
            ELSE Return(Top.path)

\* a slip: the string is handed back to provision_path itself
provision_path_l352_self ==
    /\ At("provision_path", "l352")
    /\ IF ~IsPath(Top.path)
       THEN IF ~Top.fl.no_convert /\ IsStr(Top.path)
            THEN Invoke(Top.path, "l354", "provision_path", "l352", Top.path,
                        [DefaultFlags EXCEPT !.do_not_expand = Top.fl.do_not_expand,
                                             !.do_not_resolve = Top.fl.do_not_resolve])
            ELSE Raise("TypeError")
       ELSE Return(Top.path)

\* the results of expanduser() and resolve() are not assigned: the path
\* that came in is the path that goes out
provision_path_l352 ==
    /\ At("provision_path", "l352")
    /\ IF ~IsPath(Top.path)
       THEN IF ~Top.fl.no_convert /\ IsStr(Top.path)
            THEN Invoke(Top.path, "l354", "prepare_path", "l295", Top.path,
                        [DefaultFlags EXCEPT !.do_not_expand = Top.fl.do_not_expand,
                                             !.do_not_resolve = Top.fl.do_not_resolve])
            ELSE Raise("TypeError")
       ELSE Return(Top.path)

provision_path_l354 ==
    /\ At("provision_path", "l354")
    /\ Return(ret)

(***************************************************************************)
(* prepare_path                                                            *)
(***************************************************************************)
Call_prepare_path ==
    \E v \in Values, e, r, c, p, x \in BOOLEAN :
        Start("prepare_path", "l295", v,
              [DefaultFlags EXCEPT !.do_not_expand = e, !.do_not_resolve = r,
                                   !.no_convert = c, !.no_provision = p,
                                   !.no_existing_check = x], {})

\* the conversion of a string: Path() is called without the string
Converted(v, no_convert) ==
    IF ~no_convert /\ IsStr(v) THEN PathV(PathOf(<<>>)) ELSE v

prepare_path_l295 ==
    /\ At("prepare_path", "l295")
    /\ LET path == Converted(Top.path, Top.fl.no_convert)
       IN  IF ~Top.fl.no_provision
           THEN Invoke(path, "l301", "provision_path", "l352", path,
                       [DefaultFlags EXCEPT !.do_not_expand = Top.fl.do_not_expand,
                                            !.do_not_resolve = Top.fl.do_not_resolve,
                                            !.no_convert = TRUE])
           ELSE Goto(path, "l308")

prepare_path_l301 ==
    /\ At("prepare_path", "l301")
    /\ Goto(ret, "l308")

prepare_path_l308 ==
    /\ At("prepare_path", "l308")
    /\ IF ~Top.fl.no_existing_check
       THEN Invoke(Top.path, "l311", "check_path_exists", "l188", Top.path, DefaultFlags)
       ELSE Return(Top.path)

prepare_path_l311 ==
    /\ At("prepare_path", "l311")
    /\ Return(Top.path)

(***************************************************************************)
(* get_extension                                                           *)
(***************************************************************************)
Call_get_extension ==
    \E v \in Values, p, d, n, x \in BOOLEAN :
        Start("get_extension", "l232", v,
              [DefaultFlags EXCEPT !.no_provision = p, !.no_strip_dot = d,
                                   !.no_prepare = n, !.no_existing_check = x], {})

get_extension_l232 ==
    /\ At("get_extension", "l232")
    /\ IF ~Top.fl.no_prepare
       THEN Invoke(Top.path, "l233", "prepare_path", "l295", Top.path,
                   [DefaultFlags EXCEPT !.no_provision = Top.fl.no_provision,
                                        !.no_existing_check = Top.fl.no_existing_check])
       ELSE Invoke(Top.path, "l239", "check_file", "l159", Top.path, DefaultFlags)

get_extension_l233 ==
    /\ At("get_extension", "l233")
    /\ Invoke(ret, "l239", "check_file", "l159", ret, DefaultFlags)

\* the extension returned for a suffix
Stripped(suffix, no_strip_dot) ==
    IF StartsWith(suffix, <<".">>) /\ ~no_strip_dot THEN SliceFrom(suffix, 1) ELSE suffix

get_extension_l239 ==
    /\ At("get_extension", "l239")
    /\ IF ~Truthy(ret)
       THEN Raise("NotAFileError")
       ELSE Return(StrV(Stripped(Suffix(Top.path.s), Top.fl.no_strip_dot)))

(***************************************************************************)
(* check_extension                                                         *)
(***************************************************************************)
Call_check_extension ==
    \E v \in Values, p, x \in BOOLEAN, l \in ExtLists :
        Start("check_extension", "l123", v,
              [DefaultFlags EXCEPT !.no_provision = p, !.no_existing_check = x], l)

\* prepare_path(file_path, no_existing_check): the flag is passed by
\* position, and the second parameter of prepare_path is do_not_expand
check_extension_l123 ==
    /\ At("check_extension", "l123")
    /\ IF ~Top.fl.no_provision
       THEN Invoke(Top.path, "l124", "prepare_path", "l295", Top.path,
                   [DefaultFlags EXCEPT !.do_not_expand = Top.fl.no_existing_check])
       ELSE Invoke(Top.path, "l126", "get_extension", "l232", Top.path,
                   [DefaultFlags EXCEPT !.no_provision = Top.fl.no_provision])

check_extension_l124 ==
    /\ At("check_extension", "l124")
    /\ Invoke(ret, "l126", "get_extension", "l232", ret,
              [DefaultFlags EXCEPT !.no_provision = Top.fl.no_provision])

check_extension_l126 ==
    /\ At("check_extension", "l126")
    /\ Return(BoolV(Lower(ret.s) \in Top.exts))

(***************************************************************************)
(* The program.                                                            *)
(***************************************************************************)
Next ==
    \/ Call_check_path_exists
    \/ Call_check_file
    \/ Call_check_dir
    \/ Call_provision_path
    \/ Call_prepare_path
    \/ Call_get_extension
    \/ Call_check_extension
    \/ check_path_exists_l188
    \/ check_file_l159
    \/ check_file_l164
    \/ check_dir_l88
    \/ check_dir_l89
    \/ provision_path_l352
    \/ provision_path_l354
    \/ prepare_path_l295
    \/ prepare_path_l301
    \/ prepare_path_l308
    \/ prepare_path_l311
    \/ get_extension_l232
    \/ get_extension_l233
    \/ get_extension_l239
    \/ check_extension_l123
    \/ check_extension_l124
    \/ check_extension_l126
    \/ Finish

Spec == Init /\ [][Next]_vars

\* the interpreter runs a started call to its end
Step ==
    \/ check_path_exists_l188
    \/ check_file_l159
    \/ check_file_l164
    \/ check_dir_l88
    \/ check_dir_l89
    \/ provision_path_l352
    \/ provision_path_l354
    \/ prepare_path_l295
    \/ prepare_path_l301
    \/ prepare_path_l308
    \/ prepare_path_l311
    \/ get_extension_l232
    \/ get_extension_l233
    \/ get_extension_l239
    \/ check_extension_l123
    \/ check_extension_l124
    \/ check_extension_l126

FairSpec == Spec /\ WF_vars(Step)

(***************************************************************************)
(* Properties.                                                             *)
(***************************************************************************)
True == BoolV(TRUE)
Returned == Done /\ outcome.kind = "return"
Raised(e) == Done /\ outcome.kind = "raise" /\ outcome.err = e
Called(fn) == Done /\ call.fn = fn

Named(v) == IF IsStr(v) THEN PathOf(v.s) ELSE v.s

\* C2: for a string or a path naming a regular file, check_extension is
\* true exactly when the lower-cased extension without its dot is in the
\* allow-list.
C2_ExtensionMembership ==
    (Called("check_extension") /\ (IsStr(call.arg) \/ IsPath(call.arg))
        /\ KindOf(fs, Named(call.arg)) = "file")
    => /\ Returned
       /\ (outcome.val = True) <=>
             (Lower(Stripped(Suffix(Named(call.arg)), FALSE)) \in call.exts)
       /\ outcome.val.t = "bool"

\* C3: prepare_path of a string s, conversion not suppressed, with
\* no_provision or do_not_expand set, returns the path whose string form is s.
C3_PathBuiltFromString ==
    (Called("prepare_path") /\ IsStr(call.arg) /\ ~call.fl.no_convert
        /\ (call.fl.no_provision \/ call.fl.do_not_expand))
    => Returned /\ IsPath(outcome.val) /\ outcome.val.s = call.arg.s

\* C4: provision_path with expansion not suppressed returns a path in which
\* a leading home-directory shorthand is replaced by the home directory.
C4_HomeExpanded ==
    (Called("provision_path") /\ ~call.fl.do_not_expand
        /\ (IsPath(call.arg) \/ (IsStr(call.arg) /\ ~call.fl.no_convert))
        /\ StartsWith(Named(call.arg), <<"~","/">>))
    => Returned /\ IsPath(outcome.val)
       /\ StartsWith(outcome.val.s, ExpandUser(Named(call.arg)))

\* the path get_extension ends up with: what prepare_path makes of the
\* argument, or the argument itself when the preparation is skipped
EndsUpWith(v, no_prepare) ==
    IF no_prepare THEN Named(v) ELSE Converted(v, FALSE).s

\* C5: get_extension of a string or a path never returns a value when the
\* path it ends up with is not a regular file: it fails with NotAFileError.
C5_NotAFile ==
    (Called("get_extension") /\ (IsStr(call.arg) \/ IsPath(call.arg))
        /\ KindOf(fs, EndsUpWith(call.arg, call.fl.no_prepare)) # "file")
    => Raised("NotAFileError")

\* C6: prepare_path returns a typed path or fails with TypeError; a value
\* that is no path after the conversion step is never returned.
C6_PathOrTypeError ==
    Called("prepare_path") =>
        /\ (Returned /\ IsPath(outcome.val)) \/ Raised("TypeError")
        /\ ~IsPath(Converted(call.arg, call.fl.no_convert)) => Raised("TypeError")

\* C7: check_dir of a typed path returns a boolean; for a regular file the
\* boolean false.
C7_CheckDirBoolean ==
    (Called("check_dir") /\ IsPath(call.arg)) =>
        /\ Returned /\ outcome.val.t = "bool"
        /\ KindOf(fs, call.arg.s) = "file" => outcome.val = BoolV(FALSE)

\* C8: provision_path and check_path_exists raise TypeError for a value
\* that is neither a string nor a path, whatever the flags, and
\* check_path_exists raises TypeError for a string as well.
C8_TypeErrorOnOtherValues ==
    /\ (Done /\ call.fn \in {"provision_path", "check_path_exists"}
          /\ ~IsStr(call.arg) /\ ~IsPath(call.arg)) => Raised("TypeError")
    /\ (Called("check_path_exists") /\ IsStr(call.arg)) => Raised("TypeError")

C8_Witness ==
    /\ Called("provision_path") /\ call.arg = IntV
    /\ call.fl.do_not_expand /\ call.fl.do_not_resolve
    /\ Raised("TypeError")

\* C9: the prepare_path call check_extension makes carries check_extension's
\* no_existing_check as its own no_existing_check and leaves do_not_expand
\* at its default, so no existence check runs in it when the flag is set.
C9_FlagForwarded ==
    \A i \in DOMAIN stack :
        (i < Len(stack) /\ stack[i].fn = "check_extension"
            /\ stack[i + 1].fn = "prepare_path")
        => /\ stack[i + 1].fl.no_existing_check = stack[i].fl.no_existing_check
           /\ stack[i + 1].fl.do_not_expand = FALSE
           /\ (stack[i].fl.no_existing_check /\ i + 1 < Len(stack))
                 => stack[i + 2].fn # "check_path_exists"

\* a frame of provision_path that hands its string to prepare_path
Delegates(f) == f.fn = "provision_path" /\ IsStr(f.arg0) /\ ~f.fl.no_convert

NestingBounded ==
    /\ outcome.err # "RecursionError"
    /\ call.fn \in {"prepare_path", "provision_path"} => Len(stack) <= 3
    /\ \A i, j \in DOMAIN stack :
          (i < j /\ stack[i].fn = "provision_path") => ~Delegates(stack[j])

\* C10: a call of prepare_path or provision_path ends, by return or raise,
\* within three nested frames, and no provision_path frame below another
\* is given a string it would hand to prepare_path again.
C10_RecursionTerminates ==
    /\ []NestingBounded
    /\ (Running /\ call.fn \in {"prepare_path", "provision_path"}) ~> Done

C10_Witness ==
    /\ call.fn = "provision_path" /\ IsStr(call.arg)
    /\ Len(stack) = 3
    /\ stack[1].pc = "l354" /\ stack[2].fn = "prepare_path"
    /\ stack[3].fn = "provision_path" /\ IsPath(stack[3].arg0)

====
